---------------------------- MODULE Spec2Model ----------------------------
(***************************************************************************)
(* Model of the ascii-art command line tool: terminal width resolution,    *)
(* brightness and edge character mapping, grid conversion, ANSI colour     *)
(* quantisation and the main pipeline.                                     *)
(*                                                                         *)
(* Rust Option values are records [some |-> FALSE] / [some |-> TRUE,       *)
(* val |-> v]; Result values are [ok |-> TRUE, val |-> v] /                *)
(* [ok |-> FALSE, err |-> e].  Characters are one-character strings.       *)
(* A binary32 value x >= 0 is the pair <<m, e>> with x = m * 2^e and       *)
(* 2^23 <= m < 2^24, or <<0, 0>> for zero.                                 *)
(***************************************************************************)
EXTENDS Integers, Sequences, FiniteSets, TLC

VARIABLES
    user_width, detected_width, resolution,      \* terminal.rs: compute_output_width
    sample_pair, mapped,                         \* the two character mappers
    rgb, color_code,                             \* renderer.rs: rgb_to_ansi
    gray, grid_result,                           \* the two grid converters
    pc, argv, cli, term, file, width_resolution, \* main.rs: one run of main
    image, processed, ascii_grid, run_error, stdout, stderr, exit_code,
    pre_image, pre_target, pre_result, resize_calls,   \* image_loader.rs: preprocess_image
    render_grid, render_original, render_out           \* renderer.rs: render_colored

widthVars == <<user_width, detected_width, resolution>>
mapVars   == <<sample_pair, mapped>>
colorVars == <<rgb, color_code>>
gridVars  == <<gray, grid_result>>
mainVars  == <<pc, argv, cli, term, file, width_resolution, image, processed,
               ascii_grid, run_error, stdout, stderr, exit_code>>
preVars   == <<pre_image, pre_target, pre_result, resize_calls>>
renderVars == <<render_grid, render_original, render_out>>
vars == <<widthVars, mapVars, colorVars, gridVars, mainVars, preVars, renderVars>>

\* The value of a variable that the specification at hand does not use.
Idle == "idle"

None == [some |-> FALSE]
Some(v) == [some |-> TRUE, val |-> v]
Option(S) == {None} \cup {Some(v) : v \in S}
Ok(v) == [ok |-> TRUE, val |-> v]
Err(e) == [ok |-> FALSE, err |-> e]

Max(a, b) == IF a >= b THEN a ELSE b
Min(a, b) == IF a <= b THEN a ELSE b

---------------------------------------------------------------------------
(* IEEE 754 binary32 arithmetic on non-negative finite values, rounding to *)
(* nearest, ties to even, as the f32 operations of the source compute.     *)

U8_MAX == 255

F32Zero == <<0, 0>>
F32_MAX == <<16777215, 104>>

RECURSIVE BitLen(_)
BitLen(n) == IF n = 0 THEN 0 ELSE 1 + BitLen(n \div 2)

RoundHalfEven(q, rem, den) ==
    IF 2 * rem > den \/ (2 * rem = den /\ q % 2 = 1) THEN q + 1 ELSE q

\* A rounded mantissa of 2^24 carries into the exponent.
F32Pack(m, e) == IF m = 16777216 THEN <<8388608, e + 1>> ELSE <<m, e>>

\* `n as f32`
F32FromU32(n) ==
    IF n = 0 THEN F32Zero
    ELSE LET k == BitLen(n) IN
         IF k <= 24 THEN <<n * 2^(24 - k), k - 24>>
         ELSE LET s == k - 24 IN
              F32Pack(RoundHalfEven(n \div 2^s, n % 2^s, 2^s), s)

RECURSIVE LongDiv(_, _, _, _)
LongDiv(q, r, d, bits) ==
    IF bits = 0 THEN <<q, r>>
    ELSE IF 2 * r >= d THEN LongDiv(2 * q + 1, 2 * r - d, d, bits - 1)
         ELSE LongDiv(2 * q, 2 * r, d, bits - 1)

\* `a / b` (b is not zero)
F32Div(a, b) ==
    IF a[1] = 0 THEN F32Zero
    ELSE LET bits == IF a[1] >= b[1] THEN 23 ELSE 24
             qr   == LongDiv(a[1] \div b[1], a[1] % b[1], b[1], bits)
         IN  F32Pack(RoundHalfEven(qr[1], qr[2], b[1]), a[2] - b[2] - bits)

\* `a * b`: the 48-bit product of the mantissas from 12-bit halves.
F32Mul(a, b) ==
    IF a[1] = 0 \/ b[1] = 0 THEN F32Zero
    ELSE LET ah == a[1] \div 4096
             al == a[1] % 4096
             bh == b[1] \div 4096
             bl == b[1] % 4096
             p1 == ah * bl + al * bh
             lo == (p1 % 4096) * 4096 + al * bl
             hi == ah * bh + (p1 \div 4096) + (lo \div 16777216)
             lw == lo % 16777216
         IN  IF hi >= 8388608
             THEN F32Pack(RoundHalfEven(hi, lw, 16777216), a[2] + b[2] + 24)
             ELSE F32Pack(RoundHalfEven(2 * hi + (lw \div 8388608),
                                        lw % 8388608, 8388608),
                          a[2] + b[2] + 23)

\* `a < b`
F32Lt(a, b) ==
    IF b[1] = 0 THEN FALSE
    ELSE IF a[1] = 0 THEN TRUE
    ELSE a[2] < b[2] \/ (a[2] = b[2] /\ a[1] < b[1])

\* `a.round() as u32` / `as usize`: nearest integer, halves away from zero.
F32RoundToInt(a) ==
    IF a[2] >= 0 THEN a[1] * 2^a[2]
    ELSE LET k == 0 - a[2] IN
         IF k > 24 THEN 0
         ELSE (a[1] \div 2^k) + (IF 2 * (a[1] % 2^k) >= 2^k THEN 1 ELSE 0)

\* Integer square root of n with its remainder, two bits at a time.
RECURSIVE ISqrtRem(_)
ISqrtRem(n) ==
    IF n = 0 THEN <<0, 0>>
    ELSE LET p   == ISqrtRem(n \div 4)
             rem == 4 * p[2] + (n % 4)
         IN  IF rem >= 4 * p[1] + 1
             THEN <<2 * p[1] + 1, rem - (4 * p[1] + 1)>>
             ELSE <<2 * p[1], rem>>

\* j further result bits of the square root (n extended by j zero pairs).
RECURSIVE SqrtExtend(_, _)
SqrtExtend(p, j) ==
    IF j = 0 THEN p
    ELSE SqrtExtend(IF 4 * p[2] >= 4 * p[1] + 1
                    THEN <<2 * p[1] + 1, 4 * p[2] - (4 * p[1] + 1)>>
                    ELSE <<2 * p[1], 4 * p[2]>>,
                    j - 1)

\* `a.sqrt()`, correctly rounded.
F32Sqrt(a) ==
    IF a[1] = 0 THEN F32Zero
    ELSE LET odd == a[2] % 2 /= 0
             m   == IF odd THEN 2 * a[1] ELSE a[1]
             e   == IF odd THEN a[2] - 1 ELSE a[2]
             p0  == ISqrtRem(m)
             j   == IF p0[1] >= 4096 THEN 11 ELSE 12
             p   == SqrtExtend(p0, j)
         IN  F32Pack(IF p[2] > p[1] THEN p[1] + 1 ELSE p[1], (e \div 2) - j)

---------------------------------------------------------------------------
(* terminal.rs *)

WidthSource == {"User", "AutoDetected", "Fallback"}

MARGIN == 2
MIN_WIDTH == 40
FALLBACK_WIDTH == 80

\* wrapping_sub, the wrap shown at 31 bits, the widest integers of the model
apply_margin_wrapping(width) ==
    IF width >= MARGIN THEN width - MARGIN ELSE 2147483647 - (MARGIN - width) + 1

\* u32::saturating_sub
apply_margin(width) == IF width >= MARGIN THEN width - MARGIN ELSE 0

compute_output_width_floor_all(uw, dw) ==
    IF uw.some
    THEN [width |-> Max(uw.val, MIN_WIDTH), source |-> "User"]
    ELSE IF dw.some
         THEN [width |-> Max(apply_margin(dw.val), MIN_WIDTH), source |-> "AutoDetected"]
         ELSE [width |-> FALLBACK_WIDTH, source |-> "Fallback"]

compute_output_width_no_floor(uw, dw) ==
    IF uw.some
    THEN [width |-> uw.val, source |-> "User"]
    ELSE [width  |-> IF dw.some THEN apply_margin(dw.val) ELSE FALLBACK_WIDTH,
          source |-> IF dw.some THEN "AutoDetected" ELSE "Fallback"]

compute_output_width_fallback_source(uw, dw) ==
    IF uw.some
    THEN [width |-> uw.val, source |-> "User"]
    ELSE [width  |-> IF dw.some THEN Max(apply_margin(dw.val), MIN_WIDTH)
                     ELSE FALLBACK_WIDTH,
          source |-> IF dw.some /\ dw.val > MARGIN THEN "AutoDetected" ELSE "Fallback"]

compute_output_width(uw, dw) ==
    IF uw.some
    THEN [width |-> uw.val, source |-> "User"]
    ELSE [width  |-> IF dw.some THEN Max(apply_margin(dw.val), MIN_WIDTH)
                     ELSE FALLBACK_WIDTH,
          source |-> IF dw.some THEN "AutoDetected" ELSE "Fallback"]


---------------------------------------------------------------------------
(* ascii_converter.rs and edge_detector.rs: the character mappers *)

CHARSET == <<" ", ".", ":", "-", "=", "+", "*", "#", "%", "@">>

RAMP_LAST == 9

\* scaled by the ramp's length instead of its last index
brightness_to_char_scaled_by_len(brightness) ==
    LET scaled == F32Mul(F32Div(F32FromU32(brightness), F32FromU32(U8_MAX)),
                         F32FromU32(Len(CHARSET)))
        index  == F32RoundToInt(scaled)
    IN  CHARSET[Min(index, RAMP_LAST) + 1]

\* ((brightness as f32 / 255.0) * 9.0).round() as usize, then CHARSET[index.min(9)]
brightness_to_char(brightness) ==
    LET scaled == F32Mul(F32Div(F32FromU32(brightness), F32FromU32(U8_MAX)),
                         F32FromU32(RAMP_LAST))
        index  == F32RoundToInt(scaled)
    IN  CHARSET[Min(index, RAMP_LAST) + 1]

EDGE_VALUE == 255

edge_to_char_threshold(edge_value) == IF edge_value >= 128 THEN "#" ELSE " "

edge_to_char(edge_value) == IF edge_value = EDGE_VALUE THEN "#" ELSE " "

---------------------------------------------------------------------------
(* renderer.rs: the palette and the colour quantiser.  ESC is byte 0x1b. *)

ANSI_COLORS == <<
    [r |-> 0,   g |-> 0,   b |-> 0,   code |-> "ESC[30m"],
    [r |-> 128, g |-> 0,   b |-> 0,   code |-> "ESC[31m"],
    [r |-> 0,   g |-> 128, b |-> 0,   code |-> "ESC[32m"],
    [r |-> 128, g |-> 128, b |-> 0,   code |-> "ESC[33m"],
    [r |-> 0,   g |-> 0,   b |-> 128, code |-> "ESC[34m"],
    [r |-> 128, g |-> 0,   b |-> 128, code |-> "ESC[35m"],
    [r |-> 0,   g |-> 128, b |-> 128, code |-> "ESC[36m"],
    [r |-> 192, g |-> 192, b |-> 192, code |-> "ESC[37m"],
    [r |-> 128, g |-> 128, b |-> 128, code |-> "ESC[90m"],
    [r |-> 255, g |-> 0,   b |-> 0,   code |-> "ESC[91m"],
    [r |-> 0,   g |-> 255, b |-> 0,   code |-> "ESC[92m"],
    [r |-> 255, g |-> 255, b |-> 0,   code |-> "ESC[93m"],
    [r |-> 0,   g |-> 0,   b |-> 255, code |-> "ESC[94m"],
    [r |-> 255, g |-> 0,   b |-> 255, code |-> "ESC[95m"],
    [r |-> 0,   g |-> 255, b |-> 255, code |-> "ESC[96m"],
    [r |-> 255, g |-> 255, b |-> 255, code |-> "ESC[97m"] >>

RESET == "ESC[0m"

\* The differences and their squares are integers below 2^24, exact in f32;
\* only the square root rounds.
Distance(r, g, b, entry) ==
    F32Sqrt(F32FromU32((r - entry.r) * (r - entry.r)
                       + (g - entry.g) * (g - entry.g)
                       + (b - entry.b) * (b - entry.b)))

\* The loop of rgb_to_ansi from entry i on; `strict` is the comparison `<`.
RECURSIVE ScanPalette(_, _, _, _, _, _, _)
ScanPalette(i, r, g, b, min_distance, closest_code, strict) ==
    IF i > Len(ANSI_COLORS) THEN closest_code
    ELSE LET distance == Distance(r, g, b, ANSI_COLORS[i])
             closer   == F32Lt(distance, min_distance)
                         \/ (~strict /\ distance = min_distance)
         IN  IF closer
             THEN ScanPalette(i + 1, r, g, b, distance, ANSI_COLORS[i].code, strict)
             ELSE ScanPalette(i + 1, r, g, b, min_distance, closest_code, strict)

rgb_to_ansi_last_wins(r, g, b) ==
    ScanPalette(1, r, g, b, F32_MAX, ANSI_COLORS[1].code, FALSE)

rgb_to_ansi(r, g, b) ==
    ScanPalette(1, r, g, b, F32_MAX, ANSI_COLORS[1].code, TRUE)

---------------------------------------------------------------------------
(* Images (image::ImageBuffer): width, height and the samples in row-major *)
(* order; get_pixel(x, y) reads sample y * width + x.                      *)

get_pixel(img, x, y) == img.data[y * img.width + x + 1]

IsUniform(img) == \A i, j \in DOMAIN img.data : img.data[i] = img.data[j]

DIMENSION_ERROR == "Image dimensions must be greater than zero."

convert_to_ascii_transposed(g) ==
    IF g.width = 0 \/ g.height = 0 THEN Err(DIMENSION_ERROR)
    ELSE Ok([y \in 1..g.height |->
                [x \in 1..g.width |->
                    brightness_to_char(g.data[(x - 1) * g.height + (y - 1) + 1])]])

convert_to_ascii_both_zero(g) ==
    IF g.width = 0 /\ g.height = 0 THEN Err(DIMENSION_ERROR)
    ELSE Ok([y \in 1..g.height |->
                [x \in 1..g.width |-> brightness_to_char(get_pixel(g, x - 1, y - 1))]])

convert_to_ascii(g) ==
    IF g.width = 0 \/ g.height = 0 THEN Err(DIMENSION_ERROR)
    ELSE Ok([y \in 1..g.height |->
                [x \in 1..g.width |-> brightness_to_char(get_pixel(g, x - 1, y - 1))]])

LOW_THRESHOLD == 50
HIGH_THRESHOLD == 100

\* imageproc::edges::canny, a library outside the repository: an edge map of
\* the input's size with every sample 0 or 255.  A uniform input has a zero
\* gradient everywhere and so no edge; for any other input the map is left
\* open.
canny(g, low, high) ==
    IF IsUniform(g)
    THEN {[width |-> g.width, height |-> g.height,
           data |-> [i \in 1..(g.width * g.height) |-> 0]]}
    ELSE {[width |-> g.width, height |-> g.height, data |-> d] :
            d \in [1..(g.width * g.height) -> {0, EDGE_VALUE}]}

\* detect_and_convert from the edge map that canny returned.
edge_grid(g, edge_map) ==
    IF g.width = 0 \/ g.height = 0 THEN Err(DIMENSION_ERROR)
    ELSE Ok([y \in 1..g.height |->
                [x \in 1..g.width |-> edge_to_char(get_pixel(edge_map, x - 1, y - 1))]])


---------------------------------------------------------------------------
(* Bounds of the model *)

\* Widths 0..MaxWidth for the override and for the detected terminal width.
MaxWidth == 130
\* Grayscale images of at most MaxPixels samples.
MaxPixels == 4

\* Further widths: the largest u16 (the terminal's) and 2^31 - 1, the largest
\* integer of the model (u32 values above it are not represented).
LargeWidths == {65535, 2147483647}
WidthValues == (0..MaxWidth) \cup LargeWidths

GraySamples == {0, 127, 255}
ChannelSamples == {0, 63, 64, 65, 96, 127, 128, 130, 160, 191, 192, 223, 224, 250, 255}

GrayImages ==
    UNION {{[width |-> w, height |-> h, data |-> d] :
               d \in [1..(w * h) -> GraySamples]} :
           <<w, h>> \in {wh \in (0..MaxPixels) \X (0..MaxPixels) :
                            wh[1] * wh[2] <= MaxPixels}}

IdleWidth == user_width = Idle /\ detected_width = Idle /\ resolution = Idle
IdleMap   == sample_pair = Idle /\ mapped = Idle
IdleColor == rgb = Idle /\ color_code = Idle
IdleGrid  == gray = Idle /\ grid_result = Idle
IdlePre   == /\ pre_image = Idle /\ pre_target = Idle /\ pre_result = Idle
             /\ resize_calls = Idle
IdleRender == render_grid = Idle /\ render_original = Idle /\ render_out = Idle
IdleMain  == /\ pc = Idle /\ argv = Idle /\ cli = Idle /\ term = Idle /\ file = Idle
             /\ width_resolution = Idle /\ image = Idle /\ processed = Idle
             /\ ascii_grid = Idle /\ run_error = Idle /\ stdout = Idle /\ stderr = Idle /\ exit_code = Idle

---------------------------------------------------------------------------
(* Width resolution on its own: compute_output_width on every pair of       *)
(* optional widths.                                                         *)

InitWidth ==
    /\ user_width \in Option(WidthValues)
    /\ detected_width \in Option(WidthValues)
    /\ resolution = None
    /\ IdleMap /\ IdleColor /\ IdleGrid /\ IdleMain /\ IdlePre /\ IdleRender

ComputeOutputWidth ==
    /\ resolution = None
    /\ resolution' = Some(compute_output_width(user_width, detected_width))
    /\ UNCHANGED <<user_width, detected_width, mapVars, colorVars, gridVars, mainVars, preVars, renderVars>>

NextWidth == ComputeOutputWidth

SpecWidth == InitWidth /\ [][NextWidth]_vars

---------------------------------------------------------------------------
(* The character mappers on every pair of 8-bit samples. *)

InitMappers ==
    /\ sample_pair \in (0..U8_MAX) \X (0..U8_MAX)
    /\ mapped = None
    /\ IdleWidth /\ IdleColor /\ IdleGrid /\ IdleMain /\ IdlePre /\ IdleRender

BrightnessToChar ==
    /\ mapped = None
    /\ mapped' = Some([by |-> "brightness_to_char",
                       chars |-> <<brightness_to_char(sample_pair[1]),
                                   brightness_to_char(sample_pair[2])>>])
    /\ UNCHANGED <<sample_pair, widthVars, colorVars, gridVars, mainVars, preVars, renderVars>>

EdgeToChar ==
    /\ mapped = None
    /\ mapped' = Some([by |-> "edge_to_char",
                       chars |-> <<edge_to_char(sample_pair[1]),
                                   edge_to_char(sample_pair[2])>>])
    /\ UNCHANGED <<sample_pair, widthVars, colorVars, gridVars, mainVars, preVars, renderVars>>

NextMappers == BrightnessToChar \/ EdgeToChar

SpecMappers == InitMappers /\ [][NextMappers]_vars

---------------------------------------------------------------------------
(* The colour quantiser on sampled RGB triples. *)

InitColor ==
    /\ rgb \in ChannelSamples \X ChannelSamples \X ChannelSamples
    /\ color_code = None
    /\ IdleWidth /\ IdleMap /\ IdleGrid /\ IdleMain /\ IdlePre /\ IdleRender

RgbToAnsi ==
    /\ color_code = None
    /\ color_code' = Some(rgb_to_ansi(rgb[1], rgb[2], rgb[3]))
    /\ UNCHANGED <<rgb, widthVars, mapVars, gridVars, mainVars, preVars, renderVars>>

NextColor == RgbToAnsi

SpecColor == InitColor /\ [][NextColor]_vars

---------------------------------------------------------------------------
(* The grid converters on every small grayscale image, the empty ones      *)
(* included.                                                               *)

InitGrid ==
    /\ gray \in GrayImages
    /\ grid_result = None
    /\ IdleWidth /\ IdleMap /\ IdleColor /\ IdleMain /\ IdlePre /\ IdleRender

ConvertToAscii ==
    /\ grid_result = None
    /\ grid_result' = Some([by |-> "convert_to_ascii", result |-> convert_to_ascii(gray)])
    /\ UNCHANGED <<gray, widthVars, mapVars, colorVars, mainVars, preVars, renderVars>>

DetectAndConvert ==
    /\ grid_result = None
    /\ \E edge_map \in canny(gray, LOW_THRESHOLD, HIGH_THRESHOLD) :
          grid_result' = Some([by |-> "detect_and_convert",
                               result |-> edge_grid(gray, edge_map)])
    /\ UNCHANGED <<gray, widthVars, mapVars, colorVars, mainVars, preVars, renderVars>>

NextGrid == ConvertToAscii \/ DetectAndConvert

SpecGrid == InitGrid /\ [][NextGrid]_vars


---------------------------------------------------------------------------
(* image_loader.rs.  A message is the sequence of the pieces it is          *)
(* formatted from.  What image::open finds at the path is `file`: a decoded *)
(* image or the library's error.                                            *)

\* impl Display for ImageLoaderError
to_string(error) ==
    CASE error.variant = "FileNotFound" ->
            <<"Could not find image file \"", error.arg, "\".">>
      [] error.variant = "UnsupportedFormat" ->
            <<"Unsupported image format for file \"", error.arg, "\".">>
      [] OTHER -> error.arg

map_io_error(io_kind, path) ==
    IF io_kind = "NotFound"
    THEN [variant |-> "FileNotFound", arg |-> path]
    ELSE [variant |-> "IoError",
          arg |-> <<"I/O error while accessing \"", path, "\": ", "<io error>">>]

map_image_error(error, path) ==
    CASE error.kind = "IoError" -> map_io_error(error.io_kind, path)
      [] error.kind = "Unsupported" -> [variant |-> "UnsupportedFormat", arg |-> path]
      [] error.kind = "Decoding" ->
            [variant |-> "DecodeFailed",
             arg |-> <<"Failed to decode image \"", path, "\": ", "<decoding error>">>]
      [] error.kind = "Limits" ->
            [variant |-> "DecodeFailed",
             arg |-> <<"Image limits exceeded for \"", path, "\": ", "<limit error>">>]
      [] OTHER ->
            [variant |-> "DecodeFailed",
             arg |-> <<"Failed to load image \"", path, "\": ", "<image error>">>]

load_image(path, opened) ==
    IF opened.kind = "Image" THEN Ok(opened.image)
    ELSE Err(map_image_error(opened, path))

\* the cast truncates: .round() is left out
target_height_of_truncating(original_width, original_height, corrected_width) ==
    LET aspect_ratio == F32Div(F32FromU32(original_height), F32FromU32(original_width))
        scaled       == F32Mul(aspect_ratio, F32FromU32(corrected_width))
        halved       == IF scaled[1] = 0 THEN F32Zero ELSE <<scaled[1], scaled[2] - 1>>
        truncated    == IF halved[2] >= 0 THEN halved[1] * 2^halved[2]
                        ELSE IF 0 - halved[2] > 24 THEN 0
                        ELSE halved[1] \div 2^(0 - halved[2])
    IN  Max(truncated, 1)

\* ((aspect_ratio * corrected_width as f32) / 2.0).round().max(1.0) as u32
target_height_of(original_width, original_height, corrected_width) ==
    LET aspect_ratio == F32Div(F32FromU32(original_height), F32FromU32(original_width))
        scaled       == F32Mul(aspect_ratio, F32FromU32(corrected_width))
        halved       == IF scaled[1] = 0 THEN F32Zero ELSE <<scaled[1], scaled[2] - 1>>
    IN  Max(F32RoundToInt(halved), 1)

\* DynamicImage::resize_exact and imageops::grayscale, of the image library:
\* the images of the model are filled with one grey level, which resampling
\* keeps and whose luma is the level itself.
resize_exact(img, nwidth, nheight) ==
    [width |-> nwidth, height |-> nheight,
     data |-> [i \in 1..(nwidth * nheight) |-> img.data[1]]]

grayscale(img) ==
    [width |-> img.width, height |-> img.height,
     data |-> [i \in 1..(img.width * img.height) |-> img.data[i][1]]]

\* The library calls preprocess_image makes, in order: none when a check
\* returns early.
preprocess_calls(img, target_width) ==
    IF target_width = 0 THEN <<>>
    ELSE IF img.width = 0 \/ img.height = 0 THEN <<>>
    ELSE <<"resize_exact", "grayscale">>

\* the grayscale buffer is taken from the image as decoded, not as resized
preprocess_image_gray_from_input(img, target_width) ==
    IF target_width = 0
    THEN Err([variant |-> "InvalidDimensions",
              arg |-> <<"Target width must be greater than zero.">>])
    ELSE IF img.width = 0 \/ img.height = 0
    THEN Err([variant |-> "InvalidDimensions",
              arg |-> <<"Input image has invalid dimensions.">>])
    ELSE LET resized == resize_exact(img, target_width,
                                     target_height_of(img.width, img.height, target_width))
         IN  Ok([original |-> resized, gray |-> grayscale(img)])

preprocess_image(img, target_width) ==
    IF target_width = 0
    THEN Err([variant |-> "InvalidDimensions",
              arg |-> <<"Target width must be greater than zero.">>])
    ELSE IF img.width = 0 \/ img.height = 0
    THEN Err([variant |-> "InvalidDimensions",
              arg |-> <<"Input image has invalid dimensions.">>])
    ELSE LET resized == resize_exact(img, target_width,
                                     target_height_of(img.width, img.height, target_width))
         IN  Ok([original |-> resized, gray |-> grayscale(resized)])

---------------------------------------------------------------------------
(* renderer.rs: render_colored, as the tokens it prints.  A pixel lookup    *)
(* outside the colour buffer panics: the output stops there.                *)

InBounds(img, x, y) == x < img.width /\ y < img.height

\* One row: print!("{}{}", color_code, ch) per cell, then println!("{}", RESET).
RowTokens(row, y, original) ==
    [i \in 1..(2 * Len(row)) |->
        IF i % 2 = 1
        THEN LET pixel == get_pixel(original, (i - 1) \div 2, y)
             IN  rgb_to_ansi(pixel[1], pixel[2], pixel[3])
        ELSE row[i \div 2]] \o <<RESET, "\n">>

RowInBounds(row, y, original) ==
    \A x \in 0..(Len(row) - 1) : InBounds(original, x, y)

\* The cells of a row printed before its first lookup out of bounds.
RowPrefix(row, y, original) ==
    LET good == {n \in 0..Len(row) :
                    \A x \in 0..(n - 1) : InBounds(original, x, y)}
        n    == CHOOSE k \in good : \A m \in good : m <= k
    IN  [i \in 1..(2 * n) |->
            IF i % 2 = 1
            THEN LET pixel == get_pixel(original, (i - 1) \div 2, y)
                 IN  rgb_to_ansi(pixel[1], pixel[2], pixel[3])
            ELSE row[i \div 2]]

\* What the panic of get_pixel writes to the error stream: the lookup that is
\* out of bounds and the dimensions of the image. The thread id, the source
\* location and the backtrace are left out.
panic_message(row, y, original) ==
    LET x == CHOOSE k \in 0..(Len(row) - 1) :
                /\ ~InBounds(original, k, y)
                /\ \A m \in 0..(k - 1) : InBounds(original, m, y)
    IN  <<"thread 'main' panicked", "Image index ",
          "(", ToString(x), ", ", ToString(y), ")", " out of bounds ",
          "(", ToString(original.width), ", ", ToString(original.height), ")", "\n">>

RECURSIVE RenderRows(_, _, _)
RenderRows(grid, y, original) ==
    IF y >= Len(grid) THEN [out |-> <<RESET>>, panicked |-> FALSE, err |-> <<>>]
    ELSE IF ~RowInBounds(grid[y + 1], y, original)
    THEN [out |-> RowPrefix(grid[y + 1], y, original), panicked |-> TRUE,
          err |-> panic_message(grid[y + 1], y, original)]
    ELSE LET rest == RenderRows(grid, y + 1, original)
         IN  [out |-> RowTokens(grid[y + 1], y, original) \o rest.out,
              panicked |-> rest.panicked, err |-> rest.err]

\* the closing print!("{}", RESET) is left out
render_colored_no_final_reset(grid, original) ==
    LET r == RenderRows(grid, 0, original)
    IN  IF r.panicked THEN r
        ELSE [out |-> SubSeq(r.out, 1, Len(r.out) - 1), panicked |-> FALSE, err |-> <<>>]

render_colored(grid, original) == RenderRows(grid, 0, original)


---------------------------------------------------------------------------
(* main.rs *)

\* the User arm prints a line as the other arms do
emit_width_messages_user_prints(source, width) ==
    CASE source = "User" ->
            [out |-> <<"Using width: ", ToString(width), " characters", "\n">>, err |-> <<>>]
      [] source = "AutoDetected" ->
            [out |-> <<"Using auto-detected width: ", ToString(width), " characters", "\n">>,
             err |-> <<>>]
      [] source = "Fallback" ->
            [out |-> <<"Using fallback width: ", ToString(width), " characters", "\n">>,
             err |-> <<"Warning: Unable to detect terminal size; defaulting to ",
                       ToString(width), " characters.", "\n">>]

emit_width_messages(source, width) ==
    CASE source = "User" -> [out |-> <<>>, err |-> <<>>]
      [] source = "AutoDetected" ->
            [out |-> <<"Using auto-detected width: ", ToString(width), " characters", "\n">>,
             err |-> <<>>]
      [] source = "Fallback" ->
            [out |-> <<"Using fallback width: ", ToString(width), " characters", "\n">>,
             err |-> <<"Warning: Unable to detect terminal size; defaulting to ",
                       ToString(width), " characters.", "\n">>]

unknown_mode_message(unknown) ==
    <<"Unknown mode '", unknown, "'. Use 'standard' or 'edge'.">>

select_conversion_default_standard(mode, g, edge_map) ==
    IF mode = "edge"
    THEN LET r == edge_grid(g, edge_map)
         IN  IF r.ok THEN r ELSE Err(<<"Edge detection failed: ", r.err>>)
    ELSE LET r == convert_to_ascii(g)
         IN  IF r.ok THEN r ELSE Err(<<r.err>>)

\* The match on cli.mode in run_pipeline; edge_map is what canny returns in
\* the "edge" arm.
select_conversion(mode, g, edge_map) ==
    CASE mode = "edge" ->
            LET r == edge_grid(g, edge_map)
            IN  IF r.ok THEN r ELSE Err(<<"Edge detection failed: ", r.err>>)
      [] mode = "standard" ->
            LET r == convert_to_ascii(g)
            IN  IF r.ok THEN r ELSE Err(<<r.err>>)
      [] OTHER -> Err(unknown_mode_message(mode))

\* Bounds of the runs of main
\* Cli::parse(): what clap derives from the fields of Cli. --help and
\* --version end the run with the text on standard output and status 0; a
\* usage error ends it with clap's message on the error stream and status 2.
\* clap writes the help text and the usage errors in its default styles when
\* the stream it writes to is a terminal that takes colour, and as plain text
\* otherwise: `styled` says which. Style gives a piece of text in a style:
\* the style's escape sequences, the text, and the reset sequence.
Style(styled, codes, text) == IF styled THEN codes \o <<text, RESET>> ELSE <<text>>

\* clap's default styles: headers bold and underlined, "error:" bold red,
\* literals bold, valid values green, invalid values yellow; placeholders
\* such as <WIDTH> are not styled.
HEADER == <<"ESC[1m", "ESC[4m">>
ERROR == <<"ESC[1m", "ESC[31m">>
LITERAL == <<"ESC[1m">>
VALID == <<"ESC[32m">>
INVALID == <<"ESC[33m">>

\* "Usage: ascii-art-cli " and what follows the program name.
USAGE(styled, rest) ==
    Style(styled, HEADER, "Usage:") \o <<" ">> \o Style(styled, LITERAL, "ascii-art-cli")
        \o <<" ">> \o rest

HELP_TEXT(styled) ==
    <<"Convert images to colorized ASCII art in the terminal", "\n", "\n">>
    \o USAGE(styled, <<"[OPTIONS] <IMAGE>">>) \o <<"\n", "\n">>
    \o Style(styled, HEADER, "Arguments:") \o <<"\n">>
    \o <<"  <IMAGE>  Path to the input image file (PNG or JPEG)", "\n", "\n">>
    \o Style(styled, HEADER, "Options:") \o <<"\n">>
    \o <<"      ">> \o Style(styled, LITERAL, "--width")
    \o <<" <WIDTH>  ", "Override the output width (characters)", "\n">>
    \o <<"      ">> \o Style(styled, LITERAL, "--mode")
    \o <<" <MODE>    ", "Rendering mode: \"standard\" or \"edge\" [default: standard]", "\n">>
    \o <<"  ">> \o Style(styled, LITERAL, "-h") \o <<", ">> \o Style(styled, LITERAL, "--help")
    \o <<"           ", "Print help", "\n">>
    \o <<"  ">> \o Style(styled, LITERAL, "-V") \o <<", ">> \o Style(styled, LITERAL, "--version")
    \o <<"        ", "Print version", "\n">>

\* The package version is set in Cargo.toml. The version line is never styled.
VERSION_TEXT == <<"ascii-art-cli ", "CARGO_PKG_VERSION", "\n">>

TRY_HELP(styled) ==
    <<"\n", "For more information, try '">> \o Style(styled, LITERAL, "--help")
        \o <<"'.", "\n">>

CliFlags == {"--width", "--mode", "--help", "-h", "--version", "-V"}

ParseExit(out, err, code) == [kind |-> "Exit", out |-> out, err |-> err, code |-> code]

UsageError(styled, message, usage) ==
    ParseExit(<<>>,
              Style(styled, ERROR, "error:") \o <<" ">> \o message \o <<"\n">> \o usage
                  \o TRY_HELP(styled),
              2)

USAGE_FULL(styled) == <<"\n">> \o USAGE(styled, <<"[OPTIONS] <IMAGE>">>) \o <<"\n">>

\* An option in a usage line: its name as a literal, then its placeholder.
USAGE_OPTION(styled, name, value) == Style(styled, LITERAL, name) \o <<" ", value, " ">>

\* The usage line of the missing-IMAGE error: the options that were given, in
\* the order given, then the required IMAGE.
USAGE_REQUIRED(styled, given) ==
    <<"\n">> \o USAGE(styled, given \o <<"<IMAGE>">>) \o <<"\n">>

\* The messages of the usage errors.
VALUE_REQUIRED(styled, arg) ==
    <<"a value is required for '">> \o Style(styled, INVALID, arg)
        \o <<"' but none was supplied">>

USED_MULTIPLE_TIMES(styled, arg) ==
    <<"the argument '">> \o Style(styled, INVALID, arg) \o <<"' cannot be used multiple times">>

INVALID_VALUE(styled, value, arg, source) ==
    <<"invalid value '">> \o Style(styled, INVALID, value) \o <<"' for '">>
        \o Style(styled, LITERAL, arg) \o <<"'", ": ", source>>

UNEXPECTED_ARGUMENT(styled, arg) ==
    <<"unexpected argument '">> \o Style(styled, INVALID, arg) \o <<"' found">>

MISSING_REQUIRED(styled, arg) ==
    <<"the following required arguments were not provided:", "\n", "  ">>
        \o Style(styled, VALID, arg)

MaxCliWidth == 3
MaxImageHeight == 2

ImagePaths == {"photo.png", "scan.jpg"}
Modes == {"standard", "edge", "invalid", "Edge"}
TermSizes == {<<30, 24>>, <<43, 24>>}
ImageWidths == {16, 32}
GreyFills == {<<0, 0, 0>>, <<200, 200, 200>>}

DecodedImages ==
    {[width |-> w, height |-> h, data |-> [i \in 1..(w * h) |-> fill]] :
        w \in ImageWidths, h \in 1..MaxImageHeight, fill \in GreyFills}

OpenFailures ==
    {[kind |-> "IoError", io_kind |-> k] : k \in {"NotFound", "PermissionDenied"}}
    \cup {[kind |-> k, io_kind |-> "-"] : k \in {"Unsupported", "Decoding", "Limits", "Parameter"}}

OpenOutcomes ==
    {[kind |-> "Image", image |-> img] : img \in DecodedImages} \cup OpenFailures

\* IMAGE, then --width and --mode, each given or not.
PlainArgvs ==
    {<<p>> \o w \o m :
        p \in ImagePaths,
        w \in {<<>>} \cup {<<"--width", ToString(n)>> : n \in 0..MaxCliWidth},
        m \in {<<>>} \cup {<<"--mode", x>> : x \in Modes}}

\* Options before IMAGE, help and version requests, and usage errors.
OtherArgvs ==
    { <<"--width", "2", "--mode", "edge", "photo.png">>,
      <<"--help">>, <<"photo.png", "-h">>, <<"--mode", "invalid", "--help">>,
      <<"--version">>, <<"-V">>,
      <<>>, <<"--mode", "invalid">>, <<"--width", "2", "--mode", "edge">>,
      <<"photo.png", "--width", "abc", "--mode", "invalid">>,
      <<"photo.png", "--width">>, <<"photo.png", "--mode", "--width", "2">>,
      <<"photo.png", "scan.jpg">>,
      <<"photo.png", "--width", "1", "--width", "2">>,
      <<"photo.png", "--mode", "edge", "--mode", "invalid">> }

Argvs == PlainArgvs \cup OtherArgvs

\* str::parse::<u32> on the value words the command lines below hold: the
\* decimal numerals of 0..MaxWidth, and "abc".
WidthWords == {ToString(n) : n \in 0..MaxWidth} \cup {"abc"}

parse_u32 ==
    [str \in WidthWords |->
        IF \E n \in 0..MaxWidth : ToString(n) = str
        THEN Ok(CHOOSE n \in 0..MaxWidth : ToString(n) = str)
        ELSE Err("invalid digit found in string")]

\* Cli::parse() on the command lines of Argvs, and on no others, writing
\* styled or plain text. On these
\* lines the outcome is that of reading the arguments from left to right:
\* a help or version request ends the run where it is met, an option is
\* checked for its value, then for being repeated, then for the value's
\* type, and the required IMAGE is looked for once all arguments are read.
\* Lines on which clap's order of checks differs from that reading (a bad
\* option value before a surplus argument), values that start with a dash,
\* --option=value, -- and combined short flags are not in Argvs.
Cli_parse ==
    [line \in Argvs, styled \in BOOLEAN |->
        LET RECURSIVE ParseFrom(_, _, _)
        ParseFrom(args, i, acc) ==
            IF i > Len(args)
            THEN IF ~acc.image_path.some
                 THEN UsageError(styled, MISSING_REQUIRED(styled, "<IMAGE>"),
                                 USAGE_REQUIRED(styled, acc.given))
                 ELSE [kind |-> "Cli",
                       cli  |-> [image_path |-> acc.image_path.val,
                                 width      |-> acc.width,
                                 mode       |-> IF acc.mode.some THEN acc.mode.val ELSE "standard"]]
            ELSE LET tok == args[i]
                     has_value == i < Len(args) /\ args[i + 1] \notin CliFlags
                 IN  CASE tok \in {"--help", "-h"} -> ParseExit(HELP_TEXT(styled), <<>>, 0)
                       [] tok \in {"--version", "-V"} -> ParseExit(VERSION_TEXT, <<>>, 0)
                       [] tok = "--width" ->
                             IF ~has_value
                             THEN UsageError(styled, VALUE_REQUIRED(styled, "--width <WIDTH>"), <<>>)
                             ELSE IF acc.width.some
                             THEN UsageError(styled, USED_MULTIPLE_TIMES(styled, "--width <WIDTH>"),
                                             USAGE_FULL(styled))
                             ELSE LET n == parse_u32[args[i + 1]]
                                  IN  IF n.ok
                                      THEN ParseFrom(args, i + 2,
                                                     [acc EXCEPT !.width = Some(n.val),
                                                                 !.given = @ \o USAGE_OPTION(styled, "--width", "<WIDTH>")])
                                      ELSE UsageError(styled,
                                                      INVALID_VALUE(styled, args[i + 1],
                                                                    "--width <WIDTH>", n.err),
                                                      <<>>)
                       [] tok = "--mode" ->
                             IF ~has_value
                             THEN UsageError(styled, VALUE_REQUIRED(styled, "--mode <MODE>"), <<>>)
                             ELSE IF acc.mode.some
                             THEN UsageError(styled, USED_MULTIPLE_TIMES(styled, "--mode <MODE>"),
                                             USAGE_FULL(styled))
                             ELSE ParseFrom(args, i + 2,
                                            [acc EXCEPT !.mode = Some(args[i + 1]),
                                                        !.given = @ \o USAGE_OPTION(styled, "--mode", "<MODE>")])
                       [] OTHER ->
                             IF acc.image_path.some
                             THEN UsageError(styled, UNEXPECTED_ARGUMENT(styled, tok),
                                             USAGE_FULL(styled))
                             ELSE ParseFrom(args, i + 1, [acc EXCEPT !.image_path = Some(tok)])
        IN  ParseFrom(line, 1, [image_path |-> None, width |-> None, mode |-> None,
                                given |-> <<>>])]

InitMain ==
    /\ pc = "parse"
    /\ argv \in Argvs
    /\ cli = None
    /\ term \in Option(TermSizes)
    /\ file \in OpenOutcomes
    /\ width_resolution = None
    /\ image = None
    /\ processed = None
    /\ ascii_grid = None
    /\ run_error = None
    /\ stdout = <<>>
    /\ stderr = <<>>
    /\ exit_code = None
    /\ IdleWidth /\ IdleMap /\ IdleColor /\ IdleGrid /\ IdlePre /\ IdleRender

otherVars == <<widthVars, mapVars, colorVars, gridVars, preVars, renderVars>>

\* main: let cli = Cli::parse(); Whether the stream clap writes to (standard
\* output for help, the error stream for a usage error) is a terminal that
\* takes colour is the environment's: it depends on where that stream goes,
\* on TERM and on NO_COLOR, none of which the program reads itself.
ParseArgs ==
    /\ pc = "parse"
    /\ \E styled \in BOOLEAN :
       LET r == Cli_parse[argv, styled]
       IN  IF r.kind = "Cli"
           THEN /\ cli' = Some(r.cli)
                /\ pc' = "start"
                /\ UNCHANGED <<stdout, stderr, exit_code>>
           ELSE /\ stdout' = stdout \o r.out
                /\ stderr' = stderr \o r.err
                /\ exit_code' = Some(r.code)
                /\ pc' = "exited"
                /\ UNCHANGED cli
    /\ UNCHANGED <<argv, term, file, width_resolution, image, processed, ascii_grid,
                   run_error, otherVars>>

\* terminal::resolve_output_width(cli.width)
ResolveOutputWidth ==
    /\ pc = "start"
    /\ LET detected == IF term.some THEN Some(term.val[1]) ELSE None
       IN  width_resolution' = Some(compute_output_width(cli.val.width, detected))
    /\ pc' = "emit"
    /\ UNCHANGED <<argv, cli, term, file, image, processed, ascii_grid, run_error,
                   stdout, stderr, exit_code, otherVars>>

EmitWidthMessages ==
    /\ pc = "emit"
    /\ LET m == emit_width_messages(width_resolution.val.source, width_resolution.val.width)
       IN  /\ stdout' = stdout \o m.out
           /\ stderr' = stderr \o m.err
    /\ pc' = "load"
    /\ UNCHANGED <<argv, cli, term, file, width_resolution, image, processed, ascii_grid,
                   run_error, exit_code, otherVars>>

\* run_pipeline: load_image(&cli.image_path).map_err(|e| e.to_string())?
LoadImage ==
    /\ pc = "load"
    /\ LET r == load_image(cli.val.image_path, file)
       IN  IF r.ok
           THEN image' = Some(r.val) /\ pc' = "preprocess" /\ UNCHANGED run_error
           ELSE run_error' = Some(to_string(r.err)) /\ pc' = "failed" /\ UNCHANGED image
    /\ UNCHANGED <<argv, cli, term, file, width_resolution, processed, ascii_grid,
                   stdout, stderr, exit_code, otherVars>>

\* run_pipeline: preprocess_image(image, width).map_err(|e| e.to_string())?
PreprocessImage ==
    /\ pc = "preprocess"
    /\ LET r == preprocess_image(image.val, width_resolution.val.width)
       IN  IF r.ok
           THEN processed' = Some(r.val) /\ pc' = "convert" /\ UNCHANGED run_error
           ELSE run_error' = Some(to_string(r.err)) /\ pc' = "failed" /\ UNCHANGED processed
    /\ UNCHANGED <<argv, cli, term, file, width_resolution, image, ascii_grid,
                   stdout, stderr, exit_code, otherVars>>

\* run_pipeline: the conversion the mode selects
ConvertGrid ==
    /\ pc = "convert"
    /\ \E edge_map \in (IF cli.val.mode = "edge"
                        THEN canny(processed.val.gray, LOW_THRESHOLD, HIGH_THRESHOLD)
                        ELSE {None}) :
          LET r == select_conversion(cli.val.mode, processed.val.gray, edge_map)
          IN  IF r.ok
              THEN ascii_grid' = Some(r.val) /\ pc' = "render" /\ UNCHANGED run_error
              ELSE run_error' = Some(r.err) /\ pc' = "failed" /\ UNCHANGED ascii_grid
    /\ UNCHANGED <<argv, cli, term, file, width_resolution, image, processed,
                   stdout, stderr, exit_code, otherVars>>

\* main: Ok arm; render_colored returns Ok(()) and main returns, or a pixel
\* lookup panics.
RenderColored ==
    /\ pc = "render"
    /\ LET r == render_colored(ascii_grid.val, processed.val.original)
       IN  /\ stdout' = stdout \o r.out
           /\ stderr' = stderr \o r.err
           /\ exit_code' = Some(IF r.panicked THEN 101 ELSE 0)
    /\ pc' = "exited"
    /\ UNCHANGED <<argv, cli, term, file, width_resolution, image, processed, ascii_grid,
                   run_error, otherVars>>

\* main: Err arm; eprintln!("{err}") and std::process::exit(1)
ReportFailure ==
    /\ pc = "failed"
    /\ stderr' = stderr \o run_error.val \o <<"\n">>
    /\ exit_code' = Some(1)
    /\ pc' = "exited"
    /\ UNCHANGED <<argv, cli, term, file, width_resolution, image, processed, ascii_grid,
                   run_error, stdout, otherVars>>

Next ==
    \/ ParseArgs
    \/ ResolveOutputWidth
    \/ EmitWidthMessages
    \/ LoadImage
    \/ PreprocessImage
    \/ ConvertGrid
    \/ RenderColored
    \/ ReportFailure

Spec == InitMain /\ [][Next]_vars


---------------------------------------------------------------------------
(* Claims about width resolution, under SpecWidth *)

\* C1: with a user override u, compute_output_width returns width exactly u
\* (no margin, no floor of 40) and source User, whatever was detected.
InvC1_UserOverrideVerbatim ==
    (resolution.some /\ user_width.some) =>
        /\ resolution.val.width = user_width.val
        /\ resolution.val.source = "User"

WitC1_OverrideBelowFloor ==
    /\ resolution.some
    /\ user_width = Some(30)
    /\ detected_width = Some(100)
    /\ resolution.val = [width |-> 30, source |-> "User"]

\* C2: without override and with a detected width d the result is
\* max(40, d - 2), the subtraction saturating at 0, with source AutoDetected;
\* it is never below 40 (d = 30 gives 40, d = 100 gives 98, d = 0 or 1 gives 40).
InvC2_DetectedMarginAndFloor ==
    (resolution.some /\ ~user_width.some /\ detected_width.some) =>
        LET d == detected_width.val
            w == resolution.val.width
        IN  /\ resolution.val.source = "AutoDetected"
            /\ w >= 40
            /\ (d >= 42 => w = d - 2)
            /\ (d < 42 => w = 40)
            /\ (d = 100 => w = 98)
            /\ (d \in {0, 1, 30} => w = 40)

WitC2_SaturatedMargin ==
    /\ resolution.some
    /\ user_width = None
    /\ detected_width = Some(1)
    /\ resolution.val = [width |-> 40, source |-> "AutoDetected"]

\* C3: compute_output_width(None, None) is exactly (80, Fallback), and source
\* Fallback is returned in no other case.
InvC3_FallbackOnlyWhenNothingKnown ==
    resolution.some =>
        /\ (~user_width.some /\ ~detected_width.some) =>
              resolution.val = [width |-> 80, source |-> "Fallback"]
        /\ resolution.val.source = "Fallback" =>
              (~user_width.some /\ ~detected_width.some)

WitC3_Fallback ==
    /\ resolution.some
    /\ user_width = None
    /\ detected_width = None
    /\ resolution.val.source = "Fallback"

\* C4 as stated: the resolved width is greater than 0 for every user_width and
\* detected_width.
InvC4_WidthAlwaysPositive ==
    resolution.some => resolution.val.width > 0

\* C4 as amended: the resolved width is greater than 0 unless the user
\* override is Some(0), which is returned verbatim as width 0.
InvC4_WidthPositiveUnlessZeroOverride ==
    resolution.some =>
        IF user_width = Some(0)
        THEN resolution.val.width = 0
        ELSE resolution.val.width > 0

WitC4_DetectedZeroStillPositive ==
    /\ resolution.some
    /\ user_width = None
    /\ detected_width = Some(0)
    /\ resolution.val.width = 40

---------------------------------------------------------------------------
(* Claims about the character mappers, under SpecMappers *)

RampIndex(ch) == CHOOSE i \in 1..Len(CHARSET) : CHARSET[i] = ch

\* C5: brightness_to_char is monotonically non-decreasing in the ramp order
\* over 0..=255, and maps 0 to ' ', 127 to '=' and 255 to '@'.
InvC5_BrightnessMonotone ==
    (mapped.some /\ mapped.val.by = "brightness_to_char") =>
        LET b1 == sample_pair[1]
            b2 == sample_pair[2]
            c1 == mapped.val.chars[1]
            c2 == mapped.val.chars[2]
        IN  /\ c1 \in {CHARSET[i] : i \in 1..Len(CHARSET)}
            /\ (b1 <= b2 => RampIndex(c1) <= RampIndex(c2))
            /\ (b1 = 0 => c1 = " ")
            /\ (b1 = 127 => c1 = "=")
            /\ (b1 = 255 => c1 = "@")

WitC5_MidRampStep ==
    /\ mapped.some
    /\ mapped.val.by = "brightness_to_char"
    /\ sample_pair = <<127, 128>>
    /\ mapped.val.chars = <<"=", "+">>

\* C9: edge_to_char(v) is '#' when v is exactly 255 and ' ' for every other
\* value in 0..=254; it returns no other character.
InvC9_EdgeCharBinary ==
    (mapped.some /\ mapped.val.by = "edge_to_char") =>
        \A i \in 1..2 :
            /\ (sample_pair[i] = 255 => mapped.val.chars[i] = "#")
            /\ (sample_pair[i] /= 255 => mapped.val.chars[i] = " ")

WitC9_NonBinaryValue ==
    /\ mapped.some
    /\ mapped.val.by = "edge_to_char"
    /\ sample_pair = <<254, 255>>
    /\ mapped.val.chars = <<" ", "#">>

---------------------------------------------------------------------------
(* Claim about the colour quantiser, under SpecColor *)

\* The squared distance, in exact integer arithmetic.
SquaredDistance(c, entry) ==
    (c[1] - entry.r) * (c[1] - entry.r) + (c[2] - entry.g) * (c[2] - entry.g)
    + (c[3] - entry.b) * (c[3] - entry.b)

\* The first palette entry at the smallest distance.
FirstNearest(c) ==
    CHOOSE i \in 1..Len(ANSI_COLORS) :
        /\ \A j \in 1..Len(ANSI_COLORS) :
              SquaredDistance(c, ANSI_COLORS[i]) <= SquaredDistance(c, ANSI_COLORS[j])
        /\ \A j \in 1..(i - 1) :
              SquaredDistance(c, ANSI_COLORS[j]) > SquaredDistance(c, ANSI_COLORS[i])

\* C6: rgb_to_ansi returns the code of a palette entry at minimal Euclidean
\* distance, the first declared one among several; (255,0,0) gives bright red,
\* (250,250,250) bright white, (130,0,0) dim red.
InvC6_NearestFirstDeclared ==
    color_code.some =>
        /\ color_code.val = ANSI_COLORS[FirstNearest(rgb)].code
        /\ (rgb = <<0, 0, 0>> => color_code.val = "ESC[30m")
        /\ (rgb = <<255, 255, 255>> => color_code.val = "ESC[97m")
        /\ (rgb = <<255, 0, 0>> => color_code.val = "ESC[91m")
        /\ (rgb = <<250, 250, 250>> => color_code.val = "ESC[97m")
        /\ (rgb = <<130, 0, 0>> => color_code.val = "ESC[31m")

\* (64,0,0) is as far from black as from dim red: black, declared first, wins.
WitC6_TieGoesToBlack ==
    /\ color_code = Some("ESC[30m")
    /\ rgb = <<64, 0, 0>>
    /\ SquaredDistance(rgb, ANSI_COLORS[1]) = SquaredDistance(rgb, ANSI_COLORS[2])

---------------------------------------------------------------------------
(* Claims about grid conversion, under SpecGrid *)

\* C7: for an image of width w > 0 and height h > 0 both converters return
\* h rows of w characters each, and convert_to_ascii puts
\* brightness_to_char(sample at (x, y)) at grid[y][x]; an all-black image
\* gives all spaces and an all-white one all '@'.
InvC7_GridShapeAndContent ==
    (grid_result.some /\ gray.width > 0 /\ gray.height > 0) =>
        LET r == grid_result.val.result IN
        /\ r.ok
        /\ Len(r.val) = gray.height
        /\ \A y \in 1..gray.height : Len(r.val[y]) = gray.width
        /\ grid_result.val.by = "convert_to_ascii" =>
              /\ \A y \in 1..gray.height : \A x \in 1..gray.width :
                    r.val[y][x] = brightness_to_char(gray.data[(y - 1) * gray.width + x])
              /\ (\A i \in DOMAIN gray.data : gray.data[i] = 0) =>
                    \A y \in 1..gray.height : \A x \in 1..gray.width : r.val[y][x] = " "
              /\ (\A i \in DOMAIN gray.data : gray.data[i] = 255) =>
                    \A y \in 1..gray.height : \A x \in 1..gray.width : r.val[y][x] = "@"

WitC7_TwoByTwo ==
    /\ grid_result.some
    /\ grid_result.val.by = "convert_to_ascii"
    /\ gray = [width |-> 2, height |-> 2, data |-> <<0, 127, 255, 0>>]
    /\ grid_result.val.result = Ok(<< <<" ", "=">>, <<"@", " ">> >>)

\* C8: with width 0 or height 0 (either alone) both converters fail with the
\* dimension error message and return no grid, not even a partial one.
InvC8_ZeroDimensionRejected ==
    (grid_result.some /\ (gray.width = 0 \/ gray.height = 0)) =>
        LET r == grid_result.val.result IN
        /\ ~r.ok
        /\ r.err = "Image dimensions must be greater than zero."
        /\ DOMAIN r = {"ok", "err"}

WitC8_ZeroWidthOnly ==
    /\ grid_result.some
    /\ grid_result.val.by = "detect_and_convert"
    /\ gray.width = 0
    /\ gray.height = 2
    /\ ~grid_result.val.result.ok

---------------------------------------------------------------------------
(* Claim about the mode argument, under Spec *)

ValidModes == {"standard", "edge"}

LastLine(stream, n) == SubSeq(stream, Len(stream) - n + 1, Len(stream))

NamesTheMode ==
    /\ Len(stderr) >= 4
    /\ LastLine(stderr, 4) = <<"Unknown mode '", cli.val.mode, "'. Use 'standard' or 'edge'.", "\n">>

---------------------------------------------------------------------------
(* Claim about output on failure, under Spec *)

PipelineFailed == pc \in {"failed", "exited"} /\ run_error.some

\* C11 as stated: in every run in which a pipeline step fails, nothing has
\* been written to standard output by the time the error message is written
\* and the process exits non-zero.
InvC11_NothingOnStdoutOnFailure ==
    PipelineFailed => stdout = <<>>

\* C11 as amended: when a pipeline step fails, standard output holds no part
\* of the grid: it is empty with a user override, and otherwise holds only
\* the one width line that emit_width_messages printed before the pipeline
\* started; the process then exits with status 1 after writing the error.
InvC11_OnlyWidthLineOnFailure ==
    PipelineFailed =>
        LET w == width_resolution.val IN
        /\ (w.source = "User") => stdout = <<>>
        /\ (w.source = "AutoDetected") =>
              stdout = <<"Using auto-detected width: ", ToString(w.width), " characters", "\n">>
        /\ (w.source = "Fallback") =>
              stdout = <<"Using fallback width: ", ToString(w.width), " characters", "\n">>
        /\ \A i \in 1..Len(stdout) : stdout[i] /= RESET
        /\ (pc = "exited") =>
              /\ exit_code = Some(1)
              /\ Len(stderr) >= Len(run_error.val) + 1
              /\ LastLine(stderr, Len(run_error.val) + 1) = run_error.val \o <<"\n">>

WitC11_WidthLineBeforeFailure ==
    /\ pc = "exited"
    /\ exit_code = Some(1)
    /\ file.kind = "IoError"
    /\ cli.some /\ cli.val.width = None
    /\ term = None
    /\ stdout = <<"Using fallback width: ", "80", " characters", "\n">>


---------------------------------------------------------------------------
(* preprocess_image on its own: every small original image, the empty ones *)
(* included, at every small target width and at 80; and originals of about *)
(* 1000 x 1000 at target widths of about 12000. The images are of one       *)
(* colour, and the state holds of an image its dimensions and its first     *)
(* pixel.                                                                   *)

MaxOrigDim == 7
MaxTargetWidth == 27

TEST_TARGET_WIDTH == 80

SmallInputs ==
    {<<w, h, t>> : w \in 0..MaxOrigDim, h \in 0..MaxOrigDim,
                   t \in (0..MaxTargetWidth) \cup {TEST_TARGET_WIDTH}}

LargeInputs ==
    {<<1000, h, t>> : h \in 1001..(1001 + MaxOrigDim),
                      t \in (12000 - MaxTargetWidth)..12000}

\* The DynamicImage of the given dimensions whose pixels are all `pixel`.
UniformImage(width, height, pixel) ==
    [width |-> width, height |-> height,
     data |-> [i \in 1..(width * height) |-> pixel]]

\* What the state keeps of a buffer that preprocess_image returned. A field
\* r.f is read as r["f"], which leaves the other fields of r unevaluated.
BufferSummary(img) ==
    [width |-> img["width"], height |-> img["height"], first_pixel |-> img["data"][1]]

ResultSummary(r) ==
    IF r["ok"]
    THEN Ok([original |-> BufferSummary(r["val"]["original"]),
             gray     |-> BufferSummary(r["val"]["gray"])])
    ELSE Err(r["err"])

InitPreprocess ==
    /\ \E in \in SmallInputs \cup LargeInputs :
          /\ pre_image = [width |-> in[1], height |-> in[2], pixel |-> <<200, 200, 200>>]
          /\ pre_target = in[3]
    /\ pre_result = None
    /\ resize_calls = <<>>
    /\ IdleWidth /\ IdleMap /\ IdleColor /\ IdleGrid /\ IdleMain /\ IdleRender

Preprocess ==
    /\ pre_result = None
    /\ LET img == UniformImage(pre_image.width, pre_image.height, pre_image.pixel)
       IN  /\ pre_result' = Some(ResultSummary(preprocess_image(img, pre_target)))
           /\ resize_calls' = preprocess_calls(img, pre_target)
    /\ UNCHANGED <<pre_image, pre_target, widthVars, mapVars, colorVars, gridVars,
                   mainVars, renderVars>>

NextPreprocess == Preprocess

SpecPreprocess == InitPreprocess /\ [][NextPreprocess]_vars

---------------------------------------------------------------------------
(* Claim about preprocess_image, under SpecPreprocess *)

\* round(t * H / W / 2) in exact arithmetic, halves rounded up.
ExactHeight(t, W, H) == (t * H + W) \div (2 * W)

\* The integer k with k <= t * H / W / 2 < k + 1.
FloorHeight(t, W, H) == (t * H) \div (2 * W)

\* | t * H / W / 2 - (k + 1/2) | * 2 * W for the nearest half k + 1/2.
HalfDistance(t, W, H) ==
    LET m == (t * H) % (2 * W) IN IF m >= W THEN m - W ELSE W - m

\* v = t * H / W / 2 lies within v / 2^22 of a half k + 1/2; below
\* t * H = 2^22 that is: v is exactly a half.
NearHalf(t, W, H) == HalfDistance(t, W, H) <= (t * H) \div 2^22

Dimensions(img) == <<img.width, img.height>>

ZeroTargetRejected ==
    (pre_result.some /\ pre_target = 0) =>
        /\ ~pre_result.val.ok
        /\ pre_result.val.err = [variant |-> "InvalidDimensions",
                                 arg |-> <<"Target width must be greater than zero.">>]
        /\ resize_calls = <<>>

\* C12 as stated: for t > 0 and an original of W x H (both > 0) both buffers
\* have dimensions exactly (t, round(t * H / W / 2)); with t = 0 the call fails
\* with InvalidDimensions before any resize.
InvC12_ExactRoundedHeight ==
    /\ ZeroTargetRejected
    /\ (pre_result.some /\ pre_target > 0 /\ pre_image.width > 0 /\ pre_image.height > 0) =>
          LET dims == <<pre_target, ExactHeight(pre_target, pre_image.width, pre_image.height)>>
          IN  /\ pre_result.val.ok
              /\ Dimensions(pre_result.val.val.gray) = dims
              /\ Dimensions(pre_result.val.val.original) = dims

\* C12 as amended: both buffers have the same dimensions (t, h) with h >= 1.
\* With v = t * H / W / 2: h is max(1, round(v)) unless v lies within v / 2^22
\* of a half k + 1/2, where the single-precision arithmetic gives max(1, k) or
\* k + 1 and not always the one that round(v) is (3x7 at t = 27: v = 31.5, 27x31;
\* 1000x1001 at t = 11999: v = 6005.4995, 11999x6006). 4x4 at t = 80 gives
\* 80x40 and 2x1 at t = 1 gives 1x1. With t = 0 the call fails with
\* InvalidDimensions before any resize.
InvC12_HeightFlooredAtOne ==
    /\ ZeroTargetRejected
    /\ (pre_result.some /\ pre_target > 0 /\ pre_image.width > 0 /\ pre_image.height > 0) =>
          LET W == pre_image.width
              H == pre_image.height
              e == ExactHeight(pre_target, W, H)
              k == FloorHeight(pre_target, W, H)
              h == pre_result.val.val.gray.height
          IN  /\ pre_result.val.ok
              /\ resize_calls = <<"resize_exact", "grayscale">>
              /\ Dimensions(pre_result.val.val.gray) = <<pre_target, h>>
              /\ Dimensions(pre_result.val.val.original) = <<pre_target, h>>
              /\ h >= 1
              /\ ~NearHalf(pre_target, W, H) => h = Max(1, e)
              /\ NearHalf(pre_target, W, H) => h \in {Max(1, k), k + 1}
              /\ (W = 4 /\ H = 4 /\ pre_target = 80) => h = 40
              /\ (W = 2 /\ H = 1 /\ pre_target = 1) => h = 1
              /\ (W = 3 /\ H = 7 /\ pre_target = 27) => h = 31
              /\ (W = 1000 /\ H = 1001 /\ pre_target = 11999) => h = 6006

\* A 1000x1001 original at width 11999: v = 6005.4995 is below the half and
\* the height is 6006.
WitC12_NearHalfRoundsUp ==
    /\ pre_result.some
    /\ pre_result.val.ok
    /\ <<pre_image.width, pre_image.height>> = <<1000, 1001>>
    /\ pre_target = 11999
    /\ HalfDistance(pre_target, 1000, 1001) = 1
    /\ ExactHeight(pre_target, 1000, 1001) = 6005
    /\ Dimensions(pre_result.val.val.gray) = <<11999, 6006>>
    /\ Dimensions(pre_result.val.val.original) = <<11999, 6006>>

---------------------------------------------------------------------------
(* render_colored on its own: every small rectangular grid over every small *)
(* colour image, the images smaller than the grid included.                  *)

MaxCells == 4

GridChars == {" ", "@"}

\* <<64, 0, 0>> is as far from black as from dark red.
PixelColours == {<<64, 0, 0>>, <<255, 255, 255>>}

Shapes == {d \in (0..MaxCells) \X (0..MaxCells) : d[1] * d[2] <= MaxCells}

\* Vec<Vec<char>> of d[2] rows, each of d[1] characters.
CharGrids ==
    UNION {[1..d[2] -> [1..d[1] -> GridChars]] : d \in Shapes}

ColourImages ==
    UNION {{[width |-> d[1], height |-> d[2], data |-> px] :
               px \in [1..(d[1] * d[2]) -> PixelColours]} : d \in Shapes}

InitRender ==
    /\ render_grid \in CharGrids
    /\ render_original \in ColourImages
    /\ render_out = None
    /\ IdleWidth /\ IdleMap /\ IdleColor /\ IdleGrid /\ IdleMain /\ IdlePre

Render ==
    /\ render_out = None
    /\ render_out' = Some(render_colored(render_grid, render_original))
    /\ UNCHANGED <<render_grid, render_original, widthVars, mapVars, colorVars,
                   gridVars, mainVars, preVars>>

NextRender == Render

SpecRender == InitRender /\ [][NextRender]_vars

---------------------------------------------------------------------------
(* Claim about render_colored, under SpecRender *)

GridHeight(grid) == Len(grid)
GridWidth(grid) == IF Len(grid) = 0 THEN 0 ELSE Len(grid[1])

\* The colour source has a pixel at every cell of the grid.
SourceCoversGrid(grid, original) ==
    \A y \in 0..(GridHeight(grid) - 1) : \A x \in 0..(GridWidth(grid) - 1) :
        x < original.width /\ y < original.height

ColourCodes == {ANSI_COLORS[i].code : i \in 1..Len(ANSI_COLORS)}

Occurrences(seq, toks) == Cardinality({i \in 1..Len(seq) : seq[i] \in toks})

\* C13: for a grid of h rows by w columns whose cells all have a source pixel,
\* the output is, row by row and column by column, rgb_to_ansi(source pixel
\* (x, y)) immediately followed by grid[y][x], after each row the reset code
\* and a line break, and after the last row one more reset code and nothing
\* else: h*w colour-code/character pairs, h + 1 reset codes, h line breaks.
InvC13_RenderOrder ==
    (render_out.some /\ SourceCoversGrid(render_grid, render_original)) =>
        LET h      == GridHeight(render_grid)
            w      == GridWidth(render_grid)
            stride == 2 * w + 2
            out    == render_out.val.out
        IN  /\ ~render_out.val.panicked
            /\ Len(out) = h * stride + 1
            /\ \A y \in 0..(h - 1) :
                  /\ \A x \in 0..(w - 1) :
                        LET pixel == render_original.data[y * render_original.width + x + 1]
                        IN  /\ out[y * stride + 2 * x + 1] = rgb_to_ansi(pixel[1], pixel[2], pixel[3])
                            /\ out[y * stride + 2 * x + 2] = render_grid[y + 1][x + 1]
                  /\ out[y * stride + 2 * w + 1] = RESET
                  /\ out[y * stride + 2 * w + 2] = "\n"
            /\ out[h * stride + 1] = RESET
            /\ Occurrences(out, ColourCodes) = h * w
            /\ Occurrences(out, {RESET}) = h + 1
            /\ Occurrences(out, {"\n"}) = h

\* A 2x2 grid over a 2x2 image whose pixels (1, 0) and (0, 1) differ.
WitC13_TwoRowsRendered ==
    /\ render_out.some
    /\ render_grid = << <<"@", " ">>, <<" ", "@">> >>
    /\ render_original = [width |-> 2, height |-> 2,
                          data |-> << <<64, 0, 0>>, <<255, 255, 255>>,
                                      <<64, 0, 0>>, <<64, 0, 0>> >>]
    /\ render_out.val = [panicked |-> FALSE, err |-> <<>>,
                         out |-> << "ESC[30m", "@", "ESC[97m", " ", RESET, "\n",
                                    "ESC[30m", " ", "ESC[30m", "@", RESET, "\n",
                                    RESET >>]


---------------------------------------------------------------------------
(* Claim about the buffers handed from preprocess_image to render_colored, *)
(* under Spec                                                               *)

\* C14: once load_image and preprocess_image have succeeded in a run whose
\* mode is "standard" or "edge", the two buffers have the same dimensions,
\* both at least 1; the conversion does not fail, so the run never ends in the
\* converters' zero-dimension error; the grid has the height and the width of
\* processed.original, so each of its cells has a source pixel; and
\* render_colored does not panic: the run exits with status 0.
InvC14_GridMatchesColourBuffer ==
    (pc \in {"convert", "render", "failed", "exited"}
        /\ processed.some /\ cli.val.mode \in ValidModes) =>
        LET original == processed.val.original
        IN  /\ original.width >= 1 /\ original.height >= 1
            /\ Dimensions(processed.val.gray) = Dimensions(original)
            /\ pc /= "failed"
            /\ ~run_error.some
            /\ pc \in {"render", "exited"} =>
                  /\ ascii_grid.some
                  /\ Len(ascii_grid.val) = original.height
                  /\ \A y \in 1..Len(ascii_grid.val) :
                        Len(ascii_grid.val[y]) = original.width
                  /\ SourceCoversGrid(ascii_grid.val, original)
            /\ pc = "exited" =>
                  /\ exit_code = Some(0)
                  /\ Len(stdout) >= original.height * (2 * original.width + 2) + 1

\* A 32x1 image at width 3 in edge mode: the buffers are 3x1, the grid is one
\* row of three characters and the run ends normally.
WitC14_OneRowGridRendered ==
    /\ pc = "exited"
    /\ exit_code = Some(0)
    /\ cli.some /\ cli.val.mode = "edge"
    /\ image.some /\ Dimensions(image.val) = <<32, 1>>
    /\ processed.some /\ Dimensions(processed.val.original) = <<3, 1>>
    /\ ascii_grid.some /\ Len(ascii_grid.val) = 1 /\ Len(ascii_grid.val[1]) = 3

==========================================================================
